---- MODULE Spec2Model ----
(***************************************************************************)
(* Model of export_price_predictor.py: the TunisianExportPredictor network *)
(* (10 -> 32 -> 16 -> 1, ReLU, Dropout(0.2)) and the export script that     *)
(* constructs it, saves its state_dict, traces it and saves the trace.      *)
(*                                                                          *)
(* Numbers: a tensor element is an integer counting quarters (1/4), so the  *)
(* dropout rescale 1/(1-0.2) = 5/4 is exact. Generated inputs and biases    *)
(* are whole numbers (multiples of 4 quarters); weights are plain integer   *)
(* multipliers. A tensor of shape (b, n) is a sequence of b rows of length  *)
(* n; a bias of shape (n) is a sequence of length n.                        *)
(*                                                                          *)
(* Files: fs maps the name of each file this run has written to what was    *)
(* written. exitCode is the set of exit statuses returned (empty while the  *)
(* process runs).                                                           *)
(***************************************************************************)
EXTENDS Integers, Sequences, FiniteSets, TLC

VARIABLES pc, model, fs, example_input, traced_model,
          stdout, exitCode, forwardCalls, calls

vars == <<pc, model, fs, example_input, traced_model,
          stdout, exitCode, forwardCalls, calls>>

\* ---------------------------------------------------------------- bounds
\* number of distinct random initialisations of the weights that are drawn
NumInits == 4
\* number of distinct random example inputs that are drawn
NumInputs == 3
\* number of distinct dropout masks the random generator may produce
NumMasks == 3
\* largest batch size forward is applied to
MaxBatch == 2

\* ------------------------------------------------------ program constants
\* nn.Linear(10, 32), nn.Linear(32, 16), nn.Linear(16, 1)
fc1_in == 10
fc1_out == 32
fc2_in == 32
fc2_out == 16
fc3_in == 16
fc3_out == 1
\* nn.Dropout(0.2): p = DropNum / DropDen
DropNum == 1
DropDen == 5
\* torch.randn(1, 10)
ExampleRows == 1
ExampleCols == 10
\* one whole unit, counted in the resolution 1/(DropDen - DropNum) that
\* makes the rescale by 1/(1-p) exact
Unit == DropDen - DropNum

\* a name that is not bound yet, and the result of an operation that raised
\* on a shape mismatch: both are the empty sequence, which no tensor of
\* batch size >= 1 and no recorded graph equals
Unbound == << >>
ShapeError == << >>

\* ---------------------------------------------------------------- tensors
RECURSIVE SumTo(_, _)
\* sum of f[1] + ... + f[n]
SumTo(f, n) == IF n = 0 THEN 0 ELSE f[n] + SumTo(f, n - 1)

\* torch.Size of a 2-d tensor
Shape(x) == <<Len(x), Len(x[1])>>

\* Tensor.numel of a 2-d tensor (weight) and of a 1-d tensor (bias)
numel2(w) == Len(w) * Len(w[1])
numel1(b) == Len(b)

\* default random initialisation of an nn.Linear(in, out): weight of shape
\* (out, in), bias of shape (out), values drawn by the seed
Linear(in_features, out_features, seed) ==
    [ weight |-> [o \in 1..out_features |->
                    [i \in 1..in_features |-> ((seed + 2 * o + 3 * i) % 5) - 2]],
      bias   |-> [o \in 1..out_features |-> Unit * (((seed + o) % 3) - 1)] ]

\* F.linear(x, weight, bias) = x . weight^T + bias; the input's last
\* dimension must equal the layer's in_features
ApplyLinear(layer, x) ==
    IF x = ShapeError THEN ShapeError
    ELSE IF \E r \in 1..Len(x) : Len(x[r]) # Len(layer.weight[1]) THEN ShapeError
    ELSE [r \in 1..Len(x) |->
            [o \in 1..Len(layer.weight) |->
                SumTo([i \in 1..Len(x[r]) |-> layer.weight[o][i] * x[r][i]],
                      Len(x[r]))
                + layer.bias[o]]]

\* nn.ReLU: elementwise max(0, v), shape preserved
relu(x) ==
    IF x = ShapeError THEN ShapeError
    ELSE [r \in 1..Len(x) |->
            [j \in 1..Len(x[r]) |-> IF x[r][j] < 0 THEN 0 ELSE x[r][j]]]

\* the keep-bit the random generator draws for element (r, j) under mask m
Keep(m, r, j) == IF m = 0 THEN TRUE ELSE (r + j) % m # 0

\* variant: the dropout stage never consults the training flag
dropout_always(training, x, m) ==
    IF x = ShapeError THEN ShapeError
    ELSE [r \in 1..Len(x) |->
            [j \in 1..Len(x[r]) |->
                IF Keep(m, r, j)
                THEN (x[r][j] * DropDen) \div (DropDen - DropNum)
                ELSE 0]]

\* nn.Dropout(p): in training mode zero each element the mask drops and
\* rescale the survivors by 1/(1-p); outside training mode the identity
dropout(training, x, m) ==
    IF x = ShapeError THEN ShapeError
    ELSE IF training
    THEN [r \in 1..Len(x) |->
            [j \in 1..Len(x[r]) |->
                IF Keep(m, r, j)
                THEN (x[r][j] * DropDen) \div (DropDen - DropNum)
                ELSE 0]]
    ELSE x

\* variant: the second layer is declared one input narrower than the first
\* layer's output
TunisianExportPredictor_narrow(seed) ==
    [ fc1 |-> Linear(fc1_in, fc1_out, seed),
      fc2 |-> Linear(fc2_in - 1, fc2_out, seed + 1),
      fc3 |-> Linear(fc3_in, fc3_out, seed + 2),
      training |-> TRUE ]

\* TunisianExportPredictor.__init__: nn.Module starts in training mode
TunisianExportPredictor(seed) ==
    [ fc1 |-> Linear(fc1_in, fc1_out, seed),
      fc2 |-> Linear(fc2_in, fc2_out, seed + 1),
      fc3 |-> Linear(fc3_in, fc3_out, seed + 2),
      training |-> TRUE ]

\* variant: an activation is applied after the third layer as well
forward_final_relu(self, x, m) ==
    LET x1 == relu(ApplyLinear(self.fc1, x))
        x2 == dropout(self.training, x1, m)
        x3 == relu(ApplyLinear(self.fc2, x2))
        x4 == relu(ApplyLinear(self.fc3, x3))
    IN  x4

\* TunisianExportPredictor.forward; m is the mask the dropout stage draws
forward(self, x, m) ==
    LET x1 == relu(ApplyLinear(self.fc1, x))
        x2 == dropout(self.training, x1, m)
        x3 == relu(ApplyLinear(self.fc2, x2))
        x4 == ApplyLinear(self.fc3, x3)
    IN  x4

\* torch.randn(rows, cols): values drawn by the seed
randn(rows, cols, seed) ==
    [r \in 1..rows |->
        [c \in 1..cols |-> Unit * (((3 * seed + r + 2 * c) % 7) - 3)]]

\* variant: the bias of the first layer is stored under the second layer's
\* bias name
state_dict_misnamed(self) ==
    [k \in {"fc1.weight", "fc1.bias", "fc2.weight", "fc2.bias",
            "fc3.weight", "fc3.bias"} |->
        CASE k = "fc1.weight" -> self.fc1.weight
          [] k = "fc1.bias"   -> self.fc1.bias
          [] k = "fc2.weight" -> self.fc2.weight
          [] k = "fc2.bias"   -> self.fc1.bias
          [] k = "fc3.weight" -> self.fc3.weight
          [] k = "fc3.bias"   -> self.fc3.bias]

\* nn.Module.state_dict: parameter name -> tensor; ReLU and Dropout hold none
state_dict(self) ==
    [k \in {"fc1.weight", "fc1.bias", "fc2.weight", "fc2.bias",
            "fc3.weight", "fc3.bias"} |->
        CASE k = "fc1.weight" -> self.fc1.weight
          [] k = "fc1.bias"   -> self.fc1.bias
          [] k = "fc2.weight" -> self.fc2.weight
          [] k = "fc2.bias"   -> self.fc2.bias
          [] k = "fc3.weight" -> self.fc3.weight
          [] k = "fc3.bias"   -> self.fc3.bias]

\* variant: only the weights are counted
ParameterCount_weights(self) ==
    numel2(self.fc1.weight) + numel2(self.fc2.weight) + numel2(self.fc3.weight)

\* sum(p.numel() for p in model.parameters())
ParameterCount(self) ==
    numel2(self.fc1.weight) + numel1(self.fc1.bias)
  + numel2(self.fc2.weight) + numel1(self.fc2.bias)
  + numel2(self.fc3.weight) + numel1(self.fc3.bias)

\* torch.jit.trace(model, x): the operations forward executes on x, in
\* order, with the tensors and the Python-level constants (the training
\* flag handed to dropout) they were executed with
TraceGraph(self, x) ==
    << [op |-> "linear",  name |-> "fc1",     layer |-> self.fc1, train |-> FALSE],
       [op |-> "relu",    name |-> "relu",    layer |-> Unbound,  train |-> FALSE],
       [op |-> "dropout", name |-> "dropout", layer |-> Unbound,  train |-> self.training],
       [op |-> "linear",  name |-> "fc2",     layer |-> self.fc2, train |-> FALSE],
       [op |-> "relu",    name |-> "relu",    layer |-> Unbound,  train |-> FALSE],
       [op |-> "linear",  name |-> "fc3",     layer |-> self.fc3, train |-> FALSE] >>

\* one recorded operation applied to x
RunOp(o, x, m) ==
    CASE o.op = "linear"  -> ApplyLinear(o.layer, x)
      [] o.op = "relu"    -> relu(x)
      [] o.op = "dropout" -> dropout(o.train, x, m)

RECURSIVE RunFrom(_, _, _, _)
RunFrom(graph, i, x, m) ==
    IF i > Len(graph) THEN x
    ELSE RunFrom(graph, i + 1, RunOp(graph[i], x, m), m)

\* torch.jit.load(path)(x): the recorded operations replayed on x
RunGraph(graph, x, m) == RunFrom(graph, 1, x, m)

\* file names written by the script
RawPath == "tunisian_export_model.pth"
TracedPath == "tunisian_export_model_traced.pt"
SuccessLine == "Modele PyTorch cree et sauvegarde"
ParamLine(n) == "  - Parametres: " \o ToString(n)

\* the file system after path is written with content
WriteFile(files, path, content) ==
    [n \in (DOMAIN files) \cup {path} |->
        IF n = path THEN content ELSE files[n]]

Masks == 0..(NumMasks - 1)

\* nn.Module.load_state_dict(sd), strict: the names must be exactly the
\* module's parameter names and every tensor must have the parameter's shape
LoadOK(self, sd) ==
    /\ DOMAIN sd = DOMAIN state_dict(self)
    /\ \A k \in DOMAIN sd :
          /\ Len(sd[k]) = Len(state_dict(self)[k])
          /\ k \in {"fc1.weight", "fc2.weight", "fc3.weight"} =>
                \A r \in 1..Len(sd[k]) :
                    Len(sd[k][r]) = Len(state_dict(self)[k][r])

\* the module after load_state_dict(sd): every parameter replaced by the
\* saved tensor of its name, the mode untouched
load_state_dict(self, sd) ==
    [ fc1 |-> [weight |-> sd["fc1.weight"], bias |-> sd["fc1.bias"]],
      fc2 |-> [weight |-> sd["fc2.weight"], bias |-> sd["fc2.bias"]],
      fc3 |-> [weight |-> sd["fc3.weight"], bias |-> sd["fc3.bias"]],
      training |-> self.training ]

\* ------------------------------------------------------------ the script
\* state after `model = TunisianExportPredictor()`
Init ==
    /\ pc = "save_raw"
    /\ model \in {TunisianExportPredictor(s) : s \in 1..NumInits}
    /\ fs = [n \in {} |-> Unbound]
    /\ example_input = Unbound
    /\ traced_model = Unbound
    /\ stdout = << >>
    /\ exitCode = {}
    /\ forwardCalls = 0
    /\ calls = << >>

\* torch.save(model.state_dict(), "tunisian_export_model.pth")
SaveStateDict ==
    /\ pc = "save_raw"
    /\ fs' = WriteFile(fs, RawPath, state_dict(model))
    /\ pc' = "make_input"
    /\ UNCHANGED <<model, example_input, traced_model, stdout, exitCode,
                   forwardCalls, calls>>

\* example_input = torch.randn(1, 10)
MakeExample ==
    /\ pc = "make_input"
    /\ \E s \in 1..NumInputs :
          example_input' = randn(ExampleRows, ExampleCols, s)
    /\ pc' = "trace"
    /\ UNCHANGED <<model, fs, traced_model, stdout, exitCode,
                   forwardCalls, calls>>

\* variant: tracing runs the forward pass twice
TraceModel_twice ==
    /\ pc = "trace"
    /\ \E m \in Masks :
          /\ forward(model, example_input, m) # ShapeError
          /\ traced_model' = TraceGraph(model, example_input)
    /\ forwardCalls' = forwardCalls + 2
    /\ pc' = "save_traced"
    /\ UNCHANGED <<model, fs, example_input, stdout, exitCode, calls>>

\* variant: the traced forward pass overwrites the last layer's bias
TraceModel_inplace ==
    /\ pc = "trace"
    /\ \E m \in Masks :
          /\ forward(model, example_input, m) # ShapeError
          /\ traced_model' = TraceGraph(model, example_input)
    /\ model' = [model EXCEPT !.fc3.bias = [o \in 1..fc3_out |-> 2 * Unit]]
    /\ forwardCalls' = forwardCalls + 1
    /\ pc' = "save_traced"
    /\ UNCHANGED <<fs, example_input, stdout, exitCode, calls>>

\* traced_model = torch.jit.trace(model, example_input): forward is run once
\* on the example input (drawing a dropout mask) and recorded
TraceModel ==
    /\ pc = "trace"
    /\ \E m \in Masks :
          /\ forward(model, example_input, m) # ShapeError
          /\ traced_model' = TraceGraph(model, example_input)
    /\ forwardCalls' = forwardCalls + 1
    /\ pc' = "save_traced"
    /\ UNCHANGED <<model, fs, example_input, stdout, exitCode, calls>>

\* variant: the traced graph is written over the raw-parameter file
SaveTraced_wrongpath ==
    /\ pc = "save_traced"
    /\ fs' = WriteFile(fs, RawPath, traced_model)
    /\ pc' = "print_ok"
    /\ UNCHANGED <<model, example_input, traced_model, stdout, exitCode,
                   forwardCalls, calls>>

\* traced_model.save("tunisian_export_model_traced.pt")
SaveTraced ==
    /\ pc = "save_traced"
    /\ fs' = WriteFile(fs, TracedPath, traced_model)
    /\ pc' = "print_ok"
    /\ UNCHANGED <<model, example_input, traced_model, stdout, exitCode,
                   forwardCalls, calls>>

\* print("... Modele PyTorch cree et sauvegarde")
PrintSuccess ==
    /\ pc = "print_ok"
    /\ stdout' = Append(stdout, SuccessLine)
    /\ pc' = "print_params"
    /\ UNCHANGED <<model, fs, example_input, traced_model, exitCode,
                   forwardCalls, calls>>

\* print(f"  - Parametres: {sum(p.numel() for p in model.parameters())}")
PrintParams ==
    /\ pc = "print_params"
    /\ stdout' = Append(stdout, ParamLine(ParameterCount(model)))
    /\ pc' = "end"
    /\ UNCHANGED <<model, fs, example_input, traced_model, exitCode,
                   forwardCalls, calls>>

\* the end of the script is reached: the interpreter exits with status 0
Exit ==
    /\ pc = "end"
    /\ exitCode' = {0}
    /\ pc' = "done"
    /\ UNCHANGED <<model, fs, example_input, traced_model, stdout,
                   forwardCalls, calls>>

\* variant: a handler removes the files written so far before exiting
UncaughtException_cleanup ==
    /\ pc \in {"save_raw", "trace", "save_traced"}
    /\ fs' = [n \in {} |-> Unbound]
    /\ exitCode' = {1}
    /\ pc' = "crashed"
    /\ UNCHANGED <<model, example_input, traced_model, stdout,
                   forwardCalls, calls>>

\* torch.save, torch.jit.trace or ScriptModule.save raises; the script has
\* no try/except, so the exception ends the process with status 1 and the
\* call that raised has no effect
UncaughtException ==
    /\ pc \in {"save_raw", "trace", "save_traced"}
    /\ exitCode' = {1}
    /\ pc' = "crashed"
    /\ UNCHANGED <<model, fs, example_input, traced_model, stdout,
                   forwardCalls, calls>>

Next ==
    \/ SaveStateDict
    \/ MakeExample
    \/ TraceModel
    \/ SaveTraced
    \/ PrintSuccess
    \/ PrintParams
    \/ Exit
    \/ UncaughtException

Spec == Init /\ [][Next]_vars

\* ------------------------------------------------- forward as a function
\* a model in either mode (nn.Module.training), no call made yet
InitFwd ==
    /\ pc = "forward"
    /\ model \in {[TunisianExportPredictor(s) EXCEPT !.training = t] :
                     s \in 1..NumInits, t \in BOOLEAN}
    /\ fs = [n \in {} |-> Unbound]
    /\ example_input = Unbound
    /\ traced_model = Unbound
    /\ stdout = << >>
    /\ exitCode = {}
    /\ forwardCalls = 0
    /\ calls = << >>

\* model(x) on an input of shape (b, 10); the dropout stage draws mask m.
\* Two calls are made, each kept with its input, its mask and its output.
CallForward ==
    /\ pc = "forward"
    /\ Len(calls) < 2
    /\ \E b \in 1..MaxBatch, s \in 1..NumInputs, m \in Masks :
          LET x == randn(b, fc1_in, s)
              c == [x |-> x, m |-> m, out |-> forward(model, x, m)]
          IN  calls' = Append(calls, c)
    /\ UNCHANGED <<pc, model, fs, example_input, traced_model, stdout,
                   exitCode, forwardCalls>>

NextFwd == CallForward

SpecFwd == InitFwd /\ [][NextFwd]_vars

\* ================================================================ claims

\* C1: for every batch size b >= 1, forward on an input of shape (b, 10)
\* returns an output of shape (b, 1); the layers are 10->32, 32->16, 16->1
\* and each layer's input width is the previous layer's output width.
C1_OutputShape ==
    /\ Len(model.fc1.weight[1]) = 10 /\ Len(model.fc1.weight) = 32
    /\ Len(model.fc2.weight[1]) = 32 /\ Len(model.fc2.weight) = 16
    /\ Len(model.fc3.weight[1]) = 16 /\ Len(model.fc3.weight) = 1
    /\ Len(model.fc2.weight[1]) = Len(model.fc1.weight)
    /\ Len(model.fc3.weight[1]) = Len(model.fc2.weight)
    /\ \A i \in 1..Len(calls) :
          /\ Len(calls[i].x) >= 1
          /\ \A r \in 1..Len(calls[i].x) : Len(calls[i].x[r]) = 10
          /\ calls[i].out # ShapeError
          /\ Len(calls[i].out) = Len(calls[i].x)
          /\ \A r \in 1..Len(calls[i].out) : Len(calls[i].out[r]) = 1

\* a call on a batch of more than one row, in training mode with a mask
\* that drops elements, has returned
C1_Witness ==
    /\ model.training
    /\ \E i \in 1..Len(calls) :
          /\ Len(calls[i].x) = MaxBatch
          /\ calls[i].m # 0
          /\ Len(calls[i].out) = MaxBatch

\* C2: the traced graph in the written file, run on the example input,
\* gives the output of the model's evaluation-mode forward pass on it,
\* whatever mask the random generator draws; the graph's dropout is off.
C2_TracedEqualsEval ==
    TracedPath \in DOMAIN fs =>
        \A m \in Masks :
            RunGraph(fs[TracedPath], example_input, m)
                = forward([model EXCEPT !.training = FALSE], example_input, m)

\* C3: the number of trainable scalars is (10*32+32)+(32*16+16)+(16*1+1)
\* = 897, and that is the count in the second printed line.
C3_ParameterCount ==
    /\ ParameterCount(model) = (10 * 32 + 32) + (32 * 16 + 16) + (16 * 1 + 1)
    /\ ParameterCount(model) = 897
    /\ Len(stdout) >= 2 => stdout[2] = ParamLine(897)

\* the parameter count has been printed
C3_Witness == Len(stdout) = 2 /\ pc = "done"

\* C4: the mapping in the raw file loads into any freshly constructed model
\* and gives it, name by name, the saved model's parameters, so that both
\* produce the same evaluation-mode output on every input.
C4_RoundTrip ==
    RawPath \in DOMAIN fs =>
        \A s \in 1..NumInits :
            LET fresh == TunisianExportPredictor(s)
                loaded == load_state_dict(fresh, fs[RawPath])
            IN  /\ LoadOK(fresh, fs[RawPath])
                /\ state_dict(loaded) = state_dict(model)
                /\ \A i \in 1..NumInputs, m \in Masks :
                      LET x == randn(ExampleRows, ExampleCols, i)
                      IN  forward([loaded EXCEPT !.training = FALSE], x, m)
                           = forward([model EXCEPT !.training = FALSE], x, m)

\* the raw file is written and some fresh model differs from the saved one
\* before loading, in parameters and in evaluation-mode output
C4_Witness ==
    /\ RawPath \in DOMAIN fs
    /\ \E s \in 1..NumInits, i \in 1..NumInputs :
          /\ state_dict(TunisianExportPredictor(s)) # state_dict(model)
          /\ forward([TunisianExportPredictor(s) EXCEPT !.training = FALSE],
                     randn(ExampleRows, ExampleCols, i), 0)
               # forward([model EXCEPT !.training = FALSE],
                         randn(ExampleRows, ExampleCols, i), 0)

\* C5 as stated: the one forward evaluation happens before either output
\* file is written.
C5_EvaluateBeforeWrites ==
    /\ forwardCalls <= 1
    /\ DOMAIN fs # {} => forwardCalls = 1

\* C5 amended: the raw-parameter file is written first, then the one
\* forward evaluation on the (1, 10) input, then the traced-graph file.
C5_Order ==
    /\ forwardCalls <= 1
    /\ forwardCalls = 1 =>
          RawPath \in DOMAIN fs /\ Shape(example_input) = <<1, 10>>
    /\ TracedPath \in DOMAIN fs => forwardCalls = 1 /\ RawPath \in DOMAIN fs
    /\ pc = "done" => forwardCalls = 1 /\ DOMAIN fs = {RawPath, TracedPath}

\* the script ran to its end, having evaluated the model once
C5_Witness == pc = "done" /\ forwardCalls = 1 /\ TracedPath \in DOMAIN fs

\* C6: a failure is never recovered or cleaned up. A crash after the raw
\* file was written leaves that file, no traced file and no printed line;
\* a crash of the raw write leaves no file and no later step has run; a
\* crashed process takes no further step.
C6_Crashed ==
    /\ pc = "crashed" => exitCode = {1}
    /\ pc = "crashed" => stdout = << >> /\ TracedPath \notin DOMAIN fs
    /\ pc = "crashed" /\ example_input # Unbound =>
          RawPath \in DOMAIN fs /\ fs[RawPath] = state_dict(model)
    /\ pc = "crashed" /\ example_input = Unbound =>
          DOMAIN fs = {} /\ traced_model = Unbound /\ forwardCalls = 0

C6_NoRecovery ==
    []C6_Crashed /\ [][pc = "crashed" => UNCHANGED vars]_vars

\* the write of the traced graph has failed after the raw file was written
C6_Witness ==
    /\ pc = "crashed"
    /\ traced_model # Unbound
    /\ RawPath \in DOMAIN fs

\* C7: two evaluation-mode calls with the same weights and the same input
\* return the same output, whatever masks the random generator draws.
C7_EvalDeterministic ==
    ~model.training /\ Len(calls) = 2 /\ calls[1].x = calls[2].x =>
        calls[1].out = calls[2].out

\* two evaluation-mode calls on the same input, under different masks
C7_Witness ==
    /\ ~model.training
    /\ Len(calls) = 2
    /\ calls[1].x = calls[2].x
    /\ calls[1].m # calls[2].m

\* C8: exit status 0 is reached only with exactly the two status lines
\* printed, success first and parameter count second, and a line is
\* printed only after both files have been written.
C8_SuccessOutput ==
    /\ Len(stdout) <= 2
    /\ stdout # << >> => {RawPath, TracedPath} \subseteq DOMAIN fs
    /\ stdout # << >> => stdout[1] = SuccessLine
    /\ pc = "done" <=> exitCode = {0}
    /\ exitCode = {0} =>
          stdout = <<SuccessLine, ParamLine(ParameterCount(model))>>

\* a run without failure has exited
C8_Witness == pc = "done" /\ exitCode = {0} /\ Len(stdout) = 2

\* C9: the stages run in the order layer 1, relu, dropout, layer 2, relu,
\* layer 3, with nothing after layer 3; in evaluation mode dropout is the
\* identity and the result is layer3(relu(layer2(relu(layer1(x))))).
C9_StageOrder ==
    \A i \in 1..Len(calls) :
        LET x == calls[i].x
            h == relu(ApplyLinear(model.fc1, x))
            d == [r \in 1..Len(h) |-> [j \in 1..Len(h[r]) |->
                    IF Keep(calls[i].m, r, j) THEN (5 * h[r][j]) \div 4 ELSE 0]]
        IN  IF model.training
            THEN calls[i].out =
                   ApplyLinear(model.fc3, relu(ApplyLinear(model.fc2, d)))
            ELSE calls[i].out =
                   ApplyLinear(model.fc3, relu(ApplyLinear(model.fc2, h)))

\* an evaluation-mode call has returned a negative value: nothing clamps
\* the output of layer 3
C9_Witness ==
    /\ ~model.training
    /\ \E i \in 1..Len(calls) : calls[i].out[1][1] < 0

\* C10: no step of the script changes a weight, a bias or a layer width;
\* the raw file, the traced graph and the printed count all hold the
\* parameters of the model as it is.
C10_Consistent ==
    /\ RawPath \in DOMAIN fs => fs[RawPath] = state_dict(model)
    /\ traced_model # Unbound =>
          /\ traced_model[1].layer = model.fc1
          /\ traced_model[4].layer = model.fc2
          /\ traced_model[6].layer = model.fc3
    /\ TracedPath \in DOMAIN fs => fs[TracedPath] = traced_model
    /\ Len(stdout) = 2 => stdout[2] = ParamLine(ParameterCount(model))

C10_ModelUnchanged ==
    []C10_Consistent /\ [][state_dict(model)' = state_dict(model)]_vars

\* every step of the script has run
C10_Witness ==
    /\ pc = "done"
    /\ {RawPath, TracedPath} \subseteq DOMAIN fs
    /\ Len(stdout) = 2

====
